---- MODULE Spec2Model ----
(***************************************************************************)
(* Model of the ac-lib wire-format code (src/src/parser.rs, src/src/lib.rs):*)
(* the length-dispatched event decoder Event::from_bytes, its helper        *)
(* decoders, and the 12-byte request encoder.                               *)
(*                                                                          *)
(* Every function of the crate is pure, so a behaviour is one call: Init    *)
(* draws the function and its arguments, the function's action computes the *)
(* outcome.  An outcome is Ok(value), Err(error) or a panic (Rust slice     *)
(* indexing out of range aborts the call instead of returning an error).    *)
(*                                                                          *)
(* Value representations:                                                   *)
(*   byte      : 0..255                                                     *)
(*   String    : sequence of Unicode scalar values                           *)
(*   i32       : the integer                                                *)
(*   u32       : [hi |-> upper 16 bits, lo |-> lower 16 bits]               *)
(*   f32       : [sign, exp, mant], the IEEE-754 binary32 fields            *)
(* Target endianness is little-endian (u16::to_le is the identity).         *)
(***************************************************************************)
EXTENDS Integers, Sequences, FiniteSets, TLC

VARIABLES op, size, buf, device, operation, ret, pc

vars == <<op, size, buf, device, operation, ret, pc>>

----------------------------------------------------------------------------
(* Bounds of the explored inputs *)

MaxTextLen == 3
MaxWideLen == 4
MaxBoolLen == 2
MaxWheelLen == 18
MaxExtra == 2

----------------------------------------------------------------------------
(* Outcomes of a call *)

Ok(v) == [kind |-> "Ok", val |-> v]

Err(e) == [kind |-> "Err", val |-> e]

Panic == [kind |-> "Panic", val |-> "range end index out of range for slice"]

NoMatchingSize == "No matching size found for message"

TryFromSliceError == "could not convert slice to array"

ParseCharError == "cannot parse char from string"

----------------------------------------------------------------------------
(* Slices and fixed-width conversions *)

\* &buf[lo..hi] is defined only when hi <= buf.len(); otherwise it panics
InBounds(b, lo, hi) == hi <= Len(b)

Slice(b, lo, hi) == SubSeq(b, lo + 1, hi)

\* <[u8; n]>::try_from(slice) succeeds exactly when the slice has n elements
TryIntoArray(s, n) == Len(s) = n

i32_from_be_bytes(s) ==
    s[4] + 256 * s[3] + 65536 * s[2]
    + 16777216 * (IF s[1] >= 128 THEN s[1] - 256 ELSE s[1])

i32_from_le_bytes(s) ==
    s[1] + 256 * s[2] + 65536 * s[3]
    + 16777216 * (IF s[4] >= 128 THEN s[4] - 256 ELSE s[4])

u32_from_le_bytes(s) == [hi |-> s[3] + 256 * s[4], lo |-> s[1] + 256 * s[2]]

f32_from_le_bytes(s) ==
    [sign |-> s[4] \div 128,
     exp  |-> (s[4] % 128) * 2 + (s[3] \div 128),
     mant |-> (s[3] % 128) * 65536 + s[2] * 256 + s[1]]

u8_from_le_bytes(s) == s[1]

\* BufMut::put_i32_le: the four bytes of the two's complement value, low first
put_i32_be(v) ==
    LET u == IF v < 0 THEN v + 2147483647 + 1 ELSE v
        top == (u \div 16777216) + (IF v < 0 THEN 128 ELSE 0)
    IN  <<top, (u \div 65536) % 256, (u \div 256) % 256, u % 256>>

put_i32_le(v) ==
    LET u == IF v < 0 THEN v + 2147483647 + 1 ELSE v
        top == (u \div 16777216) + (IF v < 0 THEN 128 ELSE 0)
    IN  <<u % 256, (u \div 256) % 256, (u \div 65536) % 256, top>>

----------------------------------------------------------------------------
(* Text decoding *)

REPLACEMENT_CHARACTER == 65533

IsCont(b) == b \div 64 = 2

\* byte i of s (1-based), 0 past the end
SafeGet(s, i) == IF i <= Len(s) THEN s[i] ELSE 0

\* core::str::lossy: the scalar value decoded at position i of s and the
\* number of bytes it consumes; an invalid sequence is its maximal valid
\* prefix and decodes to U+FFFD
Utf8Step(s, i) ==
    LET b1 == s[i]
        b2 == SafeGet(s, i + 1)
        b3 == SafeGet(s, i + 2)
        b4 == SafeGet(s, i + 3)
        bad(n) == [cp |-> REPLACEMENT_CHARACTER, n |-> n]
    IN  IF b1 < 128 THEN [cp |-> b1, n |-> 1]
        ELSE IF b1 >= 194 /\ b1 <= 223 THEN
            IF IsCont(b2) THEN [cp |-> (b1 - 192) * 64 + (b2 - 128), n |-> 2]
            ELSE bad(1)
        ELSE IF b1 >= 224 /\ b1 <= 239 THEN
            IF ~ (\/ b1 = 224 /\ b2 >= 160 /\ b2 <= 191
                  \/ b1 >= 225 /\ b1 <= 236 /\ b2 >= 128 /\ b2 <= 191
                  \/ b1 = 237 /\ b2 >= 128 /\ b2 <= 159
                  \/ b1 >= 238 /\ b1 <= 239 /\ b2 >= 128 /\ b2 <= 191)
            THEN bad(1)
            ELSE IF ~ IsCont(b3) THEN bad(2)
            ELSE [cp |-> (b1 - 224) * 4096 + (b2 - 128) * 64 + (b3 - 128), n |-> 3]
        ELSE IF b1 >= 240 /\ b1 <= 244 THEN
            IF ~ (\/ b1 = 240 /\ b2 >= 144 /\ b2 <= 191
                  \/ b1 >= 241 /\ b1 <= 243 /\ b2 >= 128 /\ b2 <= 191
                  \/ b1 = 244 /\ b2 >= 128 /\ b2 <= 143)
            THEN bad(1)
            ELSE IF ~ IsCont(b3) THEN bad(2)
            ELSE IF ~ IsCont(b4) THEN bad(3)
            ELSE [cp |-> (b1 - 240) * 262144 + (b2 - 128) * 4096
                         + (b3 - 128) * 64 + (b4 - 128), n |-> 4]
        ELSE bad(1)

RECURSIVE Utf8From(_, _)
Utf8From(s, i) ==
    IF i > Len(s) THEN <<>>
    ELSE <<Utf8Step(s, i).cp>> \o Utf8From(s, i + Utf8Step(s, i).n)

from_utf8_lossy(s) == Utf8From(s, 1)

IsHighSurrogate(u) == u >= 55296 /\ u <= 56319

IsLowSurrogate(u) == u >= 56320 /\ u <= 57343

\* char::decode_utf16 with lossy substitution at position i of u: a surrogate
\* pair is one scalar value, an unpaired surrogate is U+FFFD and consumes one
\* unit
Utf16Step(u, i) ==
    IF ~ IsHighSurrogate(u[i]) /\ ~ IsLowSurrogate(u[i])
    THEN [cp |-> u[i], n |-> 1]
    ELSE IF IsHighSurrogate(u[i]) /\ i + 1 <= Len(u) /\ IsLowSurrogate(u[i + 1])
    THEN [cp |-> 65536 + (u[i] - 55296) * 1024 + (u[i + 1] - 56320), n |-> 2]
    ELSE [cp |-> REPLACEMENT_CHARACTER, n |-> 1]

RECURSIVE Utf16From(_, _)
Utf16From(u, i) ==
    IF i > Len(u) THEN <<>>
    ELSE <<Utf16Step(u, i).cp>> \o Utf16From(u, i + Utf16Step(u, i).n)

from_utf16_lossy(u) == Utf16From(u, 1)

\* the filter closure |v| v.ne(&'\0') && v.ne(&'%')
KeepNulOnlyFilter(c) == c # 0

KeepChar(c) == c # 0 /\ c # 37

parse_utf8_chars(b) == SelectSeq(from_utf8_lossy(b), KeepChar)

\* .map(|v| *v as u16).map(|v| v.to_le()): one code unit per input BYTE
ByteUnits(b) == [i \in 1..Len(b) |-> b[i]]

parse_to_utf16_chars(b) == SelectSeq(from_utf16_lossy(ByteUnits(b)), KeepChar)

\* str::parse::<char>: the string must hold exactly one scalar value
ParseChar(s) == IF Len(s) = 1 THEN Ok(s[1]) ELSE Err(ParseCharError)

----------------------------------------------------------------------------
(* Small decoders *)

parse_bool_eq_one(b) ==
    IF ~ TryIntoArray(b, 1) THEN Err(TryFromSliceError)
    ELSE Ok(u8_from_le_bytes(b) = 1)

parse_bool_from_bytes(b) ==
    IF ~ TryIntoArray(b, 1) THEN Err(TryFromSliceError)
    ELSE Ok(u8_from_le_bytes(b) # 0)

parse_f32_wheels(b) ==
    IF ~ InBounds(b, 0, 4) THEN Panic
    ELSE IF ~ TryIntoArray(Slice(b, 0, 4), 4) THEN Err(TryFromSliceError)
    ELSE IF ~ InBounds(b, 4, 8) THEN Panic
    ELSE IF ~ TryIntoArray(Slice(b, 4, 8), 4) THEN Err(TryFromSliceError)
    ELSE IF ~ InBounds(b, 8, 12) THEN Panic
    ELSE IF ~ TryIntoArray(Slice(b, 8, 12), 4) THEN Err(TryFromSliceError)
    ELSE IF ~ InBounds(b, 12, 16) THEN Panic
    ELSE IF ~ TryIntoArray(Slice(b, 12, 16), 4) THEN Err(TryFromSliceError)
    ELSE Ok(<<f32_from_le_bytes(Slice(b, 0, 4)),
              f32_from_le_bytes(Slice(b, 4, 8)),
              f32_from_le_bytes(Slice(b, 8, 12)),
              f32_from_le_bytes(Slice(b, 12, 16))>>)

----------------------------------------------------------------------------
(* Event::from_bytes *)

\* One struct-literal field: the byte range it slices and the conversion it
\* applies, in source order
HandshakeResponseLayout ==
    <<[name |-> "car_name", lo |-> 0, hi |-> 100, dec |-> "utf8"],
      [name |-> "driver_name", lo |-> 100, hi |-> 200, dec |-> "utf8"],
      [name |-> "identifier", lo |-> 200, hi |-> 204, dec |-> "i32"],
      [name |-> "version", lo |-> 204, hi |-> 208, dec |-> "i32"],
      [name |-> "track_name", lo |-> 208, hi |-> 308, dec |-> "utf16"],
      [name |-> "track_config", lo |-> 308, hi |-> 408, dec |-> "utf16"]>>

CarInfoLayout ==
    <<[name |-> "identifier", lo |-> 0, hi |-> 4, dec |-> "char"],
      [name |-> "size", lo |-> 4, hi |-> 8, dec |-> "i32"],
      [name |-> "speed_kmh", lo |-> 8, hi |-> 12, dec |-> "f32"],
      [name |-> "speed_mph", lo |-> 12, hi |-> 16, dec |-> "f32"],
      [name |-> "speed_ms", lo |-> 16, hi |-> 20, dec |-> "f32"],
      [name |-> "is_abs_enabled", lo |-> 20, hi |-> 21, dec |-> "bool"],
      [name |-> "is_abs_in_action", lo |-> 21, hi |-> 22, dec |-> "bool"],
      [name |-> "is_tc_in_action", lo |-> 22, hi |-> 23, dec |-> "bool"],
      [name |-> "is_tc_enabled", lo |-> 23, hi |-> 24, dec |-> "bool"],
      [name |-> "is_in_pit", lo |-> 26, hi |-> 27, dec |-> "bool"],
      [name |-> "is_engine_limiter_on", lo |-> 27, hi |-> 28, dec |-> "bool"],
      [name |-> "accg_vertical", lo |-> 28, hi |-> 32, dec |-> "f32"],
      [name |-> "accg_horizontal", lo |-> 32, hi |-> 36, dec |-> "f32"],
      [name |-> "accg_frontal", lo |-> 36, hi |-> 40, dec |-> "f32"],
      [name |-> "lap_time", lo |-> 40, hi |-> 44, dec |-> "u32"],
      [name |-> "last_lap", lo |-> 44, hi |-> 48, dec |-> "u32"],
      [name |-> "best_lap", lo |-> 48, hi |-> 52, dec |-> "u32"],
      [name |-> "lap_count", lo |-> 42, hi |-> 56, dec |-> "u32"],
      [name |-> "gas", lo |-> 56, hi |-> 60, dec |-> "f32"],
      [name |-> "brake", lo |-> 60, hi |-> 64, dec |-> "f32"],
      [name |-> "clutch", lo |-> 64, hi |-> 68, dec |-> "f32"],
      [name |-> "engine_rpm", lo |-> 68, hi |-> 72, dec |-> "f32"],
      [name |-> "steer", lo |-> 72, hi |-> 76, dec |-> "f32"],
      [name |-> "gear", lo |-> 76, hi |-> 80, dec |-> "i32"],
      [name |-> "cg_height", lo |-> 80, hi |-> 84, dec |-> "f32"],
      [name |-> "wheel_angular_speed", lo |-> 84, hi |-> 100, dec |-> "wheels"],
      [name |-> "slip_angle", lo |-> 100, hi |-> 116, dec |-> "wheels"],
      [name |-> "slip_angle_contact_patch", lo |-> 116, hi |-> 132, dec |-> "wheels"],
      [name |-> "slip_ratio", lo |-> 132, hi |-> 148, dec |-> "wheels"],
      [name |-> "tyre_slip", lo |-> 148, hi |-> 164, dec |-> "wheels"],
      [name |-> "nd_slip", lo |-> 164, hi |-> 180, dec |-> "wheels"],
      [name |-> "load", lo |-> 180, hi |-> 196, dec |-> "wheels"],
      [name |-> "dy", lo |-> 196, hi |-> 212, dec |-> "wheels"],
      [name |-> "mz", lo |-> 212, hi |-> 228, dec |-> "wheels"],
      [name |-> "tyre_dirty_level", lo |-> 228, hi |-> 244, dec |-> "wheels"],
      [name |-> "camber_rad", lo |-> 244, hi |-> 260, dec |-> "wheels"],
      [name |-> "tyre_radius", lo |-> 260, hi |-> 276, dec |-> "wheels"],
      [name |-> "tyre_loaded_radius", lo |-> 276, hi |-> 292, dec |-> "wheels"],
      [name |-> "suspension_height", lo |-> 292, hi |-> 308, dec |-> "wheels"],
      [name |-> "car_pos_normalized", lo |-> 308, hi |-> 312, dec |-> "f32"],
      [name |-> "car_slope", lo |-> 312, hi |-> 316, dec |-> "f32"],
      [name |-> "car_coordinates", lo |-> 316, hi |-> 332, dec |-> "wheels"]>>

\* the value of one field expression: slicing panics when the range ends
\* past the buffer, a conversion returns Err through the ? operator
ReadField(b, f) ==
    IF ~ InBounds(b, f.lo, f.hi) THEN Panic
    ELSE LET s == Slice(b, f.lo, f.hi)
         IN  CASE f.dec = "utf8"   -> Ok(parse_utf8_chars(s))
               [] f.dec = "utf16"  -> Ok(parse_to_utf16_chars(s))
               [] f.dec = "char"   -> ParseChar(parse_utf8_chars(s))
               [] f.dec = "bool"   -> parse_bool_from_bytes(s)
               [] f.dec = "wheels" -> parse_f32_wheels(s)
               [] f.dec = "i32"    -> IF TryIntoArray(s, 4) THEN Ok(i32_from_le_bytes(s))
                                      ELSE Err(TryFromSliceError)
               [] f.dec = "u32"    -> IF TryIntoArray(s, 4) THEN Ok(u32_from_le_bytes(s))
                                      ELSE Err(TryFromSliceError)
               [] f.dec = "f32"    -> IF TryIntoArray(s, 4) THEN Ok(f32_from_le_bytes(s))
                                      ELSE Err(TryFromSliceError)

\* index of the first field expression, in evaluation order, that does not
\* produce a value; 0 when all do
RECURSIVE FirstFailure(_, _, _)
FirstFailure(b, layout, i) ==
    IF i > Len(layout) THEN 0
    ELSE IF ReadField(b, layout[i]).kind # "Ok" THEN i
    ELSE FirstFailure(b, layout, i + 1)

FieldNames(layout) == {layout[i].name : i \in 1..Len(layout)}

FieldOf(layout, n) == layout[CHOOSE i \in 1..Len(layout) : layout[i].name = n]

\* a struct literal: fields are evaluated top to bottom, the first panic or
\* error ends the call, otherwise the variant is built
BuildVariant(variant, b, layout) ==
    LET k == FirstFailure(b, layout, 1)
    IN  IF k # 0 THEN ReadField(b, layout[k])
        ELSE Ok([variant |-> variant,
                 fields  |-> [n \in FieldNames(layout) |->
                                 ReadField(b, FieldOf(layout, n)).val]])

LapInfoDefault ==
    [variant |-> "LapInfo",
     fields  |-> [car_id_num |-> 0, time |-> 0, lap |-> 0,
                  car_name |-> <<>>, driver_name |-> <<>>]]

\* the arm of `match size` that is taken
SizeArmWithout212(sz) ==
    CASE sz = 408 -> "HandshakeResponse"
      [] sz = 328 -> "CarInfo"
      [] OTHER    -> "_"

SizeArm(sz) ==
    CASE sz = 408 -> "HandshakeResponse"
      [] sz = 328 -> "CarInfo"
      [] sz = 212 -> "LapInfo"
      [] OTHER    -> "_"

from_bytes(sz, b) ==
    CASE SizeArm(sz) = "HandshakeResponse" ->
             BuildVariant("HandshakeResponse", b, HandshakeResponseLayout)
      [] SizeArm(sz) = "CarInfo" -> BuildVariant("CarInfo", b, CarInfoLayout)
      [] SizeArm(sz) = "LapInfo" -> Ok(LapInfoDefault)
      [] OTHER -> Err(NoMatchingSize)

----------------------------------------------------------------------------
(* Request encoder *)

Devices == {"IPhone", "IPad", "AndroidPhone", "AndroidTablet"}

DeviceAsI32(d) ==
    CASE d = "IPhone" -> 0 [] d = "IPad" -> 1
      [] d = "AndroidPhone" -> 2 [] d = "AndroidTablet" -> 3

Operations == {"Handshake", "SubscribeUpdate", "SubscribeSpot", "Dismiss"}

OperationAsI32(o) ==
    CASE o = "Handshake" -> 0 [] o = "SubscribeUpdate" -> 1
      [] o = "SubscribeSpot" -> 2 [] o = "Dismiss" -> 3

build_udp_message(o, d) ==
    put_i32_le(DeviceAsI32(d)) \o put_i32_le(1) \o put_i32_le(OperationAsI32(o))

build_msg(o, d) ==
    put_i32_le(DeviceAsI32(d)) \o put_i32_le(1) \o put_i32_le(OperationAsI32(o))

----------------------------------------------------------------------------
(* Inputs *)

SeqsUpTo(A, n) == UNION {[1..k -> A] : k \in 0..n}

\* narrow text: NUL, '%', ASCII letters, DEL, a two-byte sequence (C3 A9),
\* and bytes that are invalid on their own
TextBytes == {0, 37, 65, 66, 127, 195, 169, 255}

\* wide text: NUL, a nonzero high byte, '%', letters, surrogate high bytes
WideBytes == {0, 1, 37, 65, 216, 220}

BoolBytes == {0, 1, 255}

\* every short byte string, and the field "AB\0C%D"
TextInputs == SeqsUpTo(TextBytes, MaxTextLen) \cup {<<65, 66, 0, 67, 37, 68>>}

WideInputs == SeqsUpTo(WideBytes, MaxWideLen)

BoolInputs == [1..1 -> 0..255] \cup SeqsUpTo(BoolBytes, MaxBoolLen)

\* a slice of n bytes, all different when step is odd
Ramp(n, base, step) == [i \in 1..n |-> (base + (i - 1) * step) % 256]

WheelInputs == {Ramp(n, base, step) : n \in 0..MaxWheelLen, base \in {0, 63, 200}, step \in {0, 1, 7}}

Sizes == {0, 211, 212, 213, 328, 408, 409, 1024}

DatagramLens == {0, 3, 56, 100, 207, 212, 328, 331, 332, 407} \cup {408 + k : k \in 0..MaxExtra}

FillBytes == {0, 65, 200}

\* bytes [0,4): "a", "", "ab", "%a", U+00E9
Tags == {<<97, 0, 0, 0>>, <<0, 0, 0, 0>>, <<97, 98, 0, 0>>, <<37, 97, 0, 0>>, <<195, 169, 0, 0>>}

\* a four-byte field: 1.0f32, 1, -1, 0x04030201
Words == {<<0, 0, 128, 63>>, <<1, 0, 0, 0>>, <<255, 255, 255, 255>>, <<1, 2, 3, 4>>}

WordOffsets == {8, 52, 200, 204}

\* a received buffer of len bytes: tag at [0,4), w at [off,off+4), fill elsewhere
MakeDatagram(len, fill, tag, off, w) ==
    [i \in 1..len |-> IF i <= 4 THEN tag[i]
                      ELSE IF i > off /\ i <= off + 4 THEN w[i - off]
                      ELSE fill]

Datagrams ==
    {MakeDatagram(len, fill, tag, off, w) :
        len \in DatagramLens, fill \in FillBytes, tag \in Tags,
        off \in WordOffsets, w \in Words}

----------------------------------------------------------------------------
(* The state machine: one call *)

NoRet == [kind |-> "None", val |-> "none"]

Value(v) == [kind |-> "Value", val |-> v]

Init ==
    /\ pc = "call"
    /\ ret = NoRet
    /\ \/ /\ op = "from_bytes"
          /\ size \in Sizes
          /\ buf \in Datagrams
          /\ device = "IPhone" /\ operation = "Handshake"
       \/ /\ op \in {"parse_utf8_chars", "parse_to_utf16_chars",
                     "parse_bool_from_bytes", "parse_f32_wheels"}
          /\ buf \in CASE op = "parse_utf8_chars" -> TextInputs
                       [] op = "parse_to_utf16_chars" -> WideInputs
                       [] op = "parse_bool_from_bytes" -> BoolInputs
                       [] op = "parse_f32_wheels" -> WheelInputs
          /\ size = 0
          /\ device = "IPhone" /\ operation = "Handshake"
       \/ /\ op \in {"build_udp_message", "build_msg"}
          /\ device \in Devices
          /\ operation \in Operations
          /\ size = 0 /\ buf = <<>>

Return(r) ==
    /\ ret' = r
    /\ pc' = "done"
    /\ UNCHANGED <<op, size, buf, device, operation>>

FromBytes ==
    /\ pc = "call" /\ op = "from_bytes"
    /\ Return(from_bytes(size, buf))

ParseUtf8Chars ==
    /\ pc = "call" /\ op = "parse_utf8_chars"
    /\ Return(Value(parse_utf8_chars(buf)))

ParseToUtf16Chars ==
    /\ pc = "call" /\ op = "parse_to_utf16_chars"
    /\ Return(Value(parse_to_utf16_chars(buf)))

ParseBoolFromBytes ==
    /\ pc = "call" /\ op = "parse_bool_from_bytes"
    /\ Return(parse_bool_from_bytes(buf))

ParseF32Wheels ==
    /\ pc = "call" /\ op = "parse_f32_wheels"
    /\ Return(parse_f32_wheels(buf))

BuildUdpMessage ==
    /\ pc = "call" /\ op = "build_udp_message"
    /\ Return(Value(build_udp_message(operation, device)))

BuildMsg ==
    /\ pc = "call" /\ op = "build_msg"
    /\ Return(Value(build_msg(operation, device)))

Next ==
    \/ FromBytes
    \/ ParseUtf8Chars
    \/ ParseToUtf16Chars
    \/ ParseBoolFromBytes
    \/ ParseF32Wheels
    \/ BuildUdpMessage
    \/ BuildMsg

Spec == Init /\ [][Next]_vars

Done(f) == pc = "done" /\ op = f

----------------------------------------------------------------------------
(* Properties *)

RecognizedSizes == {408, 328, 212}

\* C1: from_bytes dispatches on size alone: it returns the error "No matching
\* size found for message" exactly when size is none of 408, 328, 212,
\* whatever the buffer holds and however long it is.
C1_DispatchOnSizeAlone ==
    Done("from_bytes") =>
        ((ret.kind = "Err" /\ ret.val = NoMatchingSize) <=> size \notin RecognizedSizes)

C1_Witness ==
    /\ Done("from_bytes")
    /\ size = 409 /\ Len(buf) = 408
    /\ ret = Err(NoMatchingSize)

\* the little-endian signed 32-bit integer held by bytes [at, at+4) of b
LeSigned32(b, at) ==
    b[at + 1] + 256 * b[at + 2] + 65536 * b[at + 3]
    + 16777216 * (IF b[at + 4] >= 128 THEN b[at + 4] - 256 ELSE b[at + 4])

\* C2: for every device and operation the request encoders return exactly 12
\* bytes whose three little-endian signed 32-bit words are the device
\* discriminant, 1, and the operation discriminant.
C2_RequestRoundTrip ==
    (Done("build_udp_message") \/ Done("build_msg")) =>
        /\ ret.kind = "Value"
        /\ Len(ret.val) = 12
        /\ \A i \in 1..12 : ret.val[i] \in 0..255
        /\ LeSigned32(ret.val, 0) = DeviceAsI32(device)
        /\ LeSigned32(ret.val, 4) = 1
        /\ LeSigned32(ret.val, 8) = OperationAsI32(operation)

C2_Witness ==
    /\ Done("build_udp_message")
    /\ device = "AndroidTablet" /\ operation = "SubscribeSpot"
    /\ ret.val = <<3, 0, 0, 0, 1, 0, 0, 0, 2, 0, 0, 0>>

\* C3: for a recognized size, from_bytes never panics, and a buffer shorter
\* than the span the selected layout reads (408 bytes for 408, 332 for 328)
\* yields an error value, never an event.
C3_TruncatedBufferIsError ==
    (Done("from_bytes") /\ size \in RecognizedSizes) =>
        /\ ret.kind \in {"Ok", "Err"}
        /\ (size = 408 /\ Len(buf) < 408) => ret.kind = "Err"
        /\ (size = 328 /\ Len(buf) < 332) => ret.kind = "Err"

\* C4: a 328-byte buffer received with length 328 decodes to a CarInfo whose
\* speed_kmh is the binary32 value of bytes [8,12), whatever the other bytes.
C4_SpeedKmhDecoded ==
    (Done("from_bytes") /\ size = 328 /\ Len(buf) = 328) =>
        /\ ret.kind = "Ok"
        /\ ret.val.variant = "CarInfo"
        /\ ret.val.fields.speed_kmh =
               [sign |-> buf[12] \div 128,
                exp  |-> (buf[12] % 128) * 2 + (buf[11] \div 128),
                mant |-> (buf[11] % 128) * 65536 + buf[10] * 256 + buf[9]]

\* C5: the four lap-timing conversions of the CarInfo layout each receive a
\* slice of exactly 4 bytes, so on a buffer that covers byte 56 decoding never
\* ends with a slice-width conversion error.
C5_LapFieldsFourBytes ==
    (Done("from_bytes") /\ size = 328 /\ Len(buf) >= 56) =>
        ~ (ret.kind = "Err" /\ ret.val = TryFromSliceError)

\* C6: a buffer of at least 408 bytes received with length 408 decodes to a
\* HandshakeResponse whose identifier and version are the little-endian signed
\* 32-bit integers of bytes [200,204) and [204,208), whatever the text ranges
\* hold.
C6_HandshakeIdentifierVersion ==
    (Done("from_bytes") /\ size = 408 /\ Len(buf) >= 408) =>
        /\ ret.kind = "Ok"
        /\ ret.val.variant = "HandshakeResponse"
        /\ ret.val.fields.identifier = LeSigned32(buf, 200)
        /\ ret.val.fields.version = LeSigned32(buf, 204)

C6_Witness ==
    /\ Done("from_bytes")
    /\ size = 408 /\ Len(buf) = 408
    /\ SubSeq(buf, 201, 204) = <<1, 0, 0, 0>>
    /\ buf[1] = 195 /\ buf[5] = 200
    /\ ret.kind = "Ok"
    /\ ret.val.fields.identifier = 1
    /\ ret.val.fields.version = -926365496

\* one 16-bit code unit lo + 256*hi per consecutive byte pair of b
PairUnits(b) == [i \in 1..(Len(b) \div 2) |-> b[2 * i - 1] + 256 * b[2 * i]]

\* C7: on an even-length input the wide-text decoder returns the stripped
\* lossy UTF-16 decoding of the code units lo + 256*hi of its byte pairs.
C7_WideTextCombinesPairs ==
    (Done("parse_to_utf16_chars") /\ Len(buf) % 2 = 0) =>
        ret.val = SelectSeq(from_utf16_lossy(PairUnits(buf)), KeepChar)

\* C8: parse_f32_wheels returns the four binary32 values of bytes [0,4),
\* [4,8), [8,12), [12,16) for a 16-byte slice and an error value for a slice
\* of any other length.
C8_WheelsExactlySixteen ==
    Done("parse_f32_wheels") =>
        IF Len(buf) = 16
        THEN /\ ret.kind = "Ok"
             /\ Len(ret.val) = 4
             /\ \A k \in 1..4 :
                    ret.val[k] =
                        [sign |-> buf[4 * k] \div 128,
                         exp  |-> (buf[4 * k] % 128) * 2 + (buf[4 * k - 1] \div 128),
                         mant |-> (buf[4 * k - 1] % 128) * 65536
                                  + buf[4 * k - 2] * 256 + buf[4 * k - 3]]
        ELSE ret.kind = "Err"

\* C9: parse_bool_from_bytes on a one-byte slice returns false for 0x00 and
\* true for 0x01..0xFF; on a slice of any other length it returns an error.
C9_BoolFromByte ==
    Done("parse_bool_from_bytes") =>
        /\ (Len(buf) = 1 /\ buf[1] = 0) => ret = Ok(FALSE)
        /\ (Len(buf) = 1 /\ buf[1] \in 1..255) => ret = Ok(TRUE)
        /\ Len(buf) # 1 => ret.kind = "Err"

C9_Witness ==
    /\ Done("parse_bool_from_bytes")
    /\ buf = <<255>>
    /\ ret = Ok(TRUE)

IsAscii(b) == \A i \in 1..Len(b) : b[i] < 128

NotNulOrPercent(c) == c \notin {0, 37}

\* C10: on ASCII input parse_utf8_chars returns the input with every 0x00 and
\* every '%' removed and all other characters kept in order; the result holds
\* no NUL and no '%'.
C10_NarrowTextStrips ==
    (Done("parse_utf8_chars") /\ IsAscii(buf)) =>
        /\ ret.kind = "Value"
        /\ ret.val = SelectSeq(buf, NotNulOrPercent)
        /\ \A i \in 1..Len(ret.val) : ret.val[i] # 0 /\ ret.val[i] # 37

C10_Witness ==
    /\ Done("parse_utf8_chars")
    /\ buf = <<65, 66, 0, 67, 37, 68>>
    /\ ret.val = <<65, 66, 67, 68>>

====
